---- MODULE Spec2Model ----
(***************************************************************************)
(* Kowalski-AI/api: an HTTP relay.  POST /analyze-pr is guarded by an      *)
(* X-API-Key gate (validateAPIKey), fetches a pull request's diff from the *)
(* hosting provider (fetchPRChanges), dispatches it to an LLM backend      *)
(* (analyzeChanges) and answers with JSON (analyzePRHandler).              *)
(*                                                                         *)
(* One request is followed through the stages of src/main.go.  Text is a   *)
(* sequence of tokens: a byte of a diff is one token, a literal of the     *)
(* source is one token, a formatted number is one token per digit.         *)
(***************************************************************************)
EXTENDS Integers, Sequences, FiniteSets, TLC

VARIABLES
    alive,        \* the server process is running
    cfgAPIKey,    \* API_KEY of the process environment ("" when unset)
    served,       \* requests the server has finished with
    pc,           \* position of the request being handled
    r,            \* the inbound *http.Request: X-API-Key, method, body
    req,          \* the decoded PRAnalysisRequest
    resp,         \* what was written to the http.ResponseWriter
    responses,    \* number of responses written for this request
    trace,        \* stages and outbound calls of this request, in order
    cfgErr,       \* stage at which loadConfig failed for this request
    hostStatus,   \* resp.StatusCode of the hosting provider's answer
    hostBody,     \* the body the hosting provider sends
    rd,           \* bytes of hostBody the transport has delivered
    chunks,       \* sizes of the reads that delivered data or ended the stream
    readEnd,      \* error that ended the read loop: "none", "EOF", "err"
    diffBuilder,  \* strings.Builder of fetchPRChanges
    diagRead,     \* outcome of io.ReadAll on a non-200 answer
    getCalls,     \* hosting GETs made for this request
    llmCalls,     \* chat-completion calls made for this request
    llmPrompt,    \* Content of the user message sent to the LLM
    llmErr,       \* CreateChatCompletion returned an error
    choices,      \* resp.Choices returned by the LLM
    indexedEmpty  \* resp.Choices[0] was evaluated on an empty slice

vars == <<alive, cfgAPIKey, served, pc, r, req, resp, responses, trace,
          cfgErr, hostStatus, hostBody, rd, chunks, readEnd, diffBuilder,
          diagRead, getCalls, llmCalls, llmPrompt, llmErr, choices, indexedEmpty>>

----------------------------------------------------------------------------
(* Bounds of the model *)

MaxBody == 2          \* longest hosting-provider body, in bytes
MaxChoices == 2       \* most completion choices the LLM returns
MaxRequests == 2      \* requests followed one after the other

(* Program constants *)

BufLen == 1024                        \* make([]byte, 1024)
StatusOK == 200
StatusBadRequest == 400
StatusUnauthorized == 401
StatusMethodNotAllowed == 405
StatusInternalServerError == 500

----------------------------------------------------------------------------
(* Input domains *)

Bytes == {"a", "b"}
Keys == {"", "s3cret", "wrong"}              \* "" is a missing header
Secrets == {"", "s3cret"}
Methods == {"POST", "GET", "DELETE"}
Owners == {"octo", "%zz"}                    \* "%zz" is not a valid URL escape
ModelTypes == {"openai", "claude", "gemini"}
HostStatuses == {200, 201, 404, 500}
Completions == {"A1", "A2"}

RECURSIVE SeqsUpTo(_, _)
SeqsUpTo(S, n) ==
    IF n = 0 THEN {<<>>}
    ELSE LET T == SeqsUpTo(S, n - 1)
         IN  T \cup {Append(t, x) : t \in {u \in T : Len(u) = n - 1}, x \in S}

Min(a, b) == IF a < b THEN a ELSE b

(* A request body: its first JSON value, and whether bytes that are not    *)
(* JSON follow that value.                                                 *)
ZeroReq == [owner |-> "", repo |-> "", pr_number |-> 0, model_type |-> ""]

ObjectBodies ==
    {[first |-> "object", trailing |-> t,
      value |-> [owner |-> o, repo |-> "api", pr_number |-> 7, model_type |-> m]] :
        t \in BOOLEAN, o \in Owners, m \in ModelTypes}

BrokenBodies ==
    {[first |-> k, trailing |-> FALSE, value |-> ZeroReq] :
        k \in {"syntax", "empty", "mistyped"}}

Bodies == ObjectBodies \cup BrokenBodies

\* the body as a whole is not one well-formed JSON document
Malformed(body) == body.first \in {"syntax", "empty"} \/ body.trailing

----------------------------------------------------------------------------
(* Text *)

DigitChar == <<"0", "1", "2", "3", "4", "5", "6", "7", "8", "9">>

\* fmt's %d of a non-negative integer
RECURSIVE Itoa(_)
Itoa(n) == IF n < 10 THEN <<DigitChar[n + 1]>>
           ELSE Itoa(n \div 10) \o <<DigitChar[(n % 10) + 1]>>

Contains(s, sub) ==
    \E i \in 1..(Len(s) - Len(sub) + 1) : SubSeq(s, i, i + Len(sub) - 1) = sub

----------------------------------------------------------------------------
(* Responses *)

NoJSON == [analysis |-> "", model_used |-> "", timestamp |-> ""]
NoResp == [status |-> 0, ctype |-> "", msg |-> <<>>, json |-> NoJSON]

\* http.Error(w, msg, code): plain text, the message and a newline
HttpError(msg, code) ==
    [status |-> code, ctype |-> "text/plain; charset=utf-8",
     msg |-> msg \o <<"\n">>, json |-> NoJSON]

\* PRAnalysisResponse through json.NewEncoder(w).Encode: the keys are the
\* struct tags, the status is the implicit 200 of the first write
JSONResponse(analysis, modelType) ==
    [status |-> StatusOK, ctype |-> "application/json", msg |-> <<>>,
     json |-> [analysis |-> analysis, model_used |-> modelType,
               timestamp |-> "time.Now()"]]

(* Errors, as the text of err.Error() *)
ErrLoadConfig == <<"error loading .env file: ", "open .env: no such file or directory">>
ErrNewRequest == <<"parse ", "invalid URL escape">>
ErrTransport == <<"Get ", "dial tcp: connection refused">>
ErrStatus(status) == <<"GitHub API returned status: ">> \o Itoa(status)
ErrOpenAI == <<"error, status code: 500">>
ErrClaude == <<"Claude integration not implemented yet">>
ErrUnsupported(modelType) == <<"unsupported model type: ", modelType>>

\* the literals of the source that contain the words "not implemented"
NotImplementedText == {"Claude integration not implemented yet"}
SaysNotImplemented(msg) == \E i \in 1..Len(msg) : msg[i] \in NotImplementedText

ErrFetching(err) == <<"Error fetching PR changes: ">> \o err
ErrAnalyzing(err) == <<"Error analyzing changes: ">> \o err

----------------------------------------------------------------------------
(* Pure steps of the code *)

\* a gate that compares the key only when the header is present
KeyRejectedIfPresent(apiKey, configKey) == apiKey # "" /\ apiKey # configKey

\* validateAPIKey: apiKey != config.APIKey
KeyRejected(apiKey, configKey) == apiKey # configKey

\* a method test that turns away GET only
MethodRejectedGetOnly(method) == method = "GET"

\* analyzePRHandler: r.Method != http.MethodPost
MethodRejected(method) == method # "POST"

\* a decode whose syntax error is dropped, leaving the zero request
DecodeIgnoringSyntax(body) ==
    IF body.first \in {"object", "syntax"}
    THEN [err |-> FALSE, value |-> body.value]
    ELSE [err |-> TRUE, value |-> ZeroReq]

\* json.NewDecoder(r.Body).Decode(&req): reads the first JSON value of the
\* body and nothing after it; fails when that value is absent, is not
\* well-formed, or does not fit the struct
Decode(body) ==
    IF body.first = "object"
    THEN [err |-> FALSE, value |-> body.value]
    ELSE [err |-> TRUE, value |-> ZeroReq]

\* http.NewRequest on the URL formatted from owner, repo and number
URLParses(owner, repo) == owner # "%zz" /\ repo # "%zz"

\* fetchPRChanges: resp.StatusCode != http.StatusOK
StatusRejected(status) == status # StatusOK

\* a loop that tests the error before it writes: the bytes that come
\* with io.EOF are lost
LoopWriteAfterErrTest(builder, chunk, err) ==
    IF Len(chunk) > 0 /\ err = "nil" THEN builder \o chunk ELSE builder

\* fetchPRChanges, one turn of the read loop: if n > 0 { Write(buf[:n]) }
LoopWrite(builder, chunk, err) ==
    IF Len(chunk) > 0 THEN builder \o chunk ELSE builder

\* fetchPRChanges, one turn of the read loop: if err != nil { break }
LoopBreak(err) == err # "nil"

PromptPrefix ==
    "Please analyze the following code changes and provide a detailed review:\n\n"

\* analyzeChanges: the Content of the single user message
Prompt(changes) == <<PromptPrefix>> \o changes

\* a switch whose second case is misspelt
DispatchMisspelt(modelType) ==
    CASE modelType = "openai" -> "openai"
      [] modelType = "Claude" -> "claude"
      [] OTHER -> "default"

\* analyzeChanges: which case of the switch a tag selects
Dispatch(modelType) ==
    CASE modelType = "openai" -> "openai"
      [] modelType = "claude" -> "claude"
      [] OTHER -> "default"

\* a result that takes the last choice instead of the first
LastChoice(cs) ==
    IF Len(cs) = 0 THEN [panic |-> TRUE, content |-> ""]
    ELSE [panic |-> FALSE, content |-> cs[Len(cs)]]

\* analyzeChanges: resp.Choices[0].Message.Content, evaluated whenever the
\* call returned no error; indexing an empty slice panics
FirstChoice(cs) ==
    IF Len(cs) = 0 THEN [panic |-> TRUE, content |-> ""]
    ELSE [panic |-> FALSE, content |-> cs[1]]

----------------------------------------------------------------------------
(* State machine *)

NoRequest == [apiKey |-> "", method |-> "", body |-> [first |-> "empty",
              trailing |-> FALSE, value |-> ZeroReq]]

ResetRequest ==
    /\ r' = NoRequest
    /\ req' = ZeroReq
    /\ resp' = NoResp
    /\ responses' = 0
    /\ trace' = <<>>
    /\ cfgErr' = "none"
    /\ hostStatus' = 0
    /\ hostBody' = <<>>
    /\ rd' = 0
    /\ chunks' = <<>>
    /\ readEnd' = "none"
    /\ diffBuilder' = <<>>
    /\ diagRead' = "none"
    /\ getCalls' = 0
    /\ llmCalls' = 0
    /\ llmPrompt' = <<>>
    /\ llmErr' = FALSE
    /\ choices' = <<>>
    /\ indexedEmpty' = FALSE

\* main: the configuration loaded, the route is registered, the server listens
Init ==
    /\ alive = TRUE
    /\ cfgAPIKey \in Secrets
    /\ served = 0
    /\ pc = "idle"
    /\ r = NoRequest
    /\ req = ZeroReq
    /\ resp = NoResp
    /\ responses = 0
    /\ trace = <<>>
    /\ cfgErr = "none"
    /\ hostStatus = 0
    /\ hostBody = <<>>
    /\ rd = 0
    /\ chunks = <<>>
    /\ readEnd = "none"
    /\ diffBuilder = <<>>
    /\ diagRead = "none"
    /\ getCalls = 0
    /\ llmCalls = 0
    /\ llmPrompt = <<>>
    /\ llmErr = FALSE
    /\ choices = <<>>
    /\ indexedEmpty = FALSE

\* the handler returns after writing a response
Respond(response, events) ==
    /\ resp' = response
    /\ responses' = responses + 1
    /\ trace' = trace \o events \o <<"respond">>
    /\ pc' = "done"

\* a request for /analyze-pr arrives
Receive ==
    /\ alive
    /\ pc = "idle"
    /\ served < MaxRequests
    /\ \E k \in Keys, m \in Methods, b \in Bodies :
          r' = [apiKey |-> k, method |-> m, body |-> b]
    /\ pc' = "auth"
    /\ UNCHANGED <<alive, cfgAPIKey, served, req, resp, responses, trace,
                   cfgErr, hostStatus, hostBody, rd, chunks, readEnd, diffBuilder,
                   diagRead, getCalls, llmCalls, llmPrompt, llmErr, choices,
                   indexedEmpty>>

\* validateAPIKey
ValidateAPIKey ==
    /\ alive
    /\ pc = "auth"
    /\ \E loaded \in BOOLEAN :
          IF ~loaded
          THEN /\ cfgErr' = "auth"
               /\ Respond(HttpError(<<"Internal server error">>,
                                    StatusInternalServerError), <<"auth">>)
          ELSE IF KeyRejected(r.apiKey, cfgAPIKey)
          THEN /\ cfgErr' = cfgErr
               /\ Respond(HttpError(<<"Unauthorized">>, StatusUnauthorized),
                          <<"auth">>)
          ELSE /\ cfgErr' = cfgErr
               /\ pc' = "handler"
               /\ trace' = trace \o <<"auth">>
               /\ UNCHANGED <<resp, responses>>
    /\ UNCHANGED <<alive, cfgAPIKey, served, r, req, hostStatus, hostBody, rd, chunks,
                   readEnd, diffBuilder, diagRead, getCalls, llmCalls,
                   llmPrompt, llmErr, choices, indexedEmpty>>

\* analyzePRHandler up to the call of fetchPRChanges
AnalyzePRHandler ==
    /\ alive
    /\ pc = "handler"
    /\ IF MethodRejected(r.method)
       THEN /\ Respond(HttpError(<<"Method not allowed">>,
                                 StatusMethodNotAllowed), <<"method">>)
            /\ req' = req
       ELSE LET d == Decode(r.body)
            IN  IF d.err
                THEN /\ Respond(HttpError(<<"Invalid request body">>,
                                          StatusBadRequest),
                                <<"method", "decode">>)
                     /\ req' = req
                ELSE /\ req' = d.value
                     /\ pc' = "fetch"
                     /\ trace' = trace \o <<"method", "decode">>
                     /\ UNCHANGED <<resp, responses>>
    /\ UNCHANGED <<alive, cfgAPIKey, served, r, cfgErr, hostStatus, hostBody,
                   rd, chunks, readEnd, diffBuilder, diagRead, getCalls, llmCalls,
                   llmPrompt, llmErr, choices, indexedEmpty>>

\* fetchPRChanges up to the status test, and the handler's answer when it
\* returns an error
FetchStart ==
    /\ alive
    /\ pc = "fetch"
    /\ \E loaded \in BOOLEAN, sent \in BOOLEAN, s \in HostStatuses,
          b \in SeqsUpTo(Bytes, MaxBody) :
          IF ~loaded
          THEN /\ cfgErr' = "fetch"
               /\ Respond(HttpError(ErrFetching(ErrLoadConfig),
                                    StatusInternalServerError), <<"fetch">>)
               /\ UNCHANGED <<getCalls, hostStatus, hostBody>>
          ELSE IF ~URLParses(req.owner, req.repo)
          THEN /\ Respond(HttpError(ErrFetching(ErrNewRequest),
                                    StatusInternalServerError), <<"fetch">>)
               /\ UNCHANGED <<cfgErr, getCalls, hostStatus, hostBody>>
          ELSE IF ~sent
          THEN /\ getCalls' = getCalls + 1
               /\ Respond(HttpError(ErrFetching(ErrTransport),
                                    StatusInternalServerError),
                          <<"fetch", "GET">>)
               /\ UNCHANGED <<cfgErr, hostStatus, hostBody>>
          ELSE /\ getCalls' = getCalls + 1
               /\ hostStatus' = s
               /\ hostBody' = b
               /\ trace' = trace \o <<"fetch", "GET">>
               /\ pc' = IF StatusRejected(s) THEN "diag" ELSE "read"
               /\ UNCHANGED <<cfgErr, resp, responses>>
    /\ UNCHANGED <<alive, cfgAPIKey, served, r, req, rd, chunks, readEnd, diffBuilder,
                   diagRead, llmCalls, llmPrompt, llmErr, choices,
                   indexedEmpty>>

\* fetchPRChanges on a status other than 200: io.ReadAll for the log line,
\* log.Fatal when it fails, else the status error and the handler's answer
FetchDiag ==
    /\ alive
    /\ pc = "diag"
    /\ \E readOK \in BOOLEAN :
          IF readOK
          THEN /\ diagRead' = "ok"
               /\ Respond(HttpError(ErrFetching(ErrStatus(hostStatus)),
                                    StatusInternalServerError), <<>>)
               /\ alive' = alive
          ELSE /\ diagRead' = "fail"
               /\ alive' = FALSE
               /\ pc' = "crashed"
               /\ UNCHANGED <<resp, responses, trace>>
    /\ UNCHANGED <<cfgAPIKey, served, r, req, cfgErr, hostStatus, hostBody, rd, chunks,
                   readEnd, diffBuilder, getCalls, llmCalls, llmPrompt, llmErr,
                   choices, indexedEmpty>>

\* fetchPRChanges, one turn of the read loop.  The transport hands over the
\* next n bytes, at most the buffer's length, with no error, with io.EOF
\* (only once everything is handed over) or with another error.
FetchRead ==
    /\ alive
    /\ pc = "read"
    /\ \E n \in 0..Min(BufLen, Len(hostBody) - rd), err \in {"nil", "EOF", "err"} :
          /\ err = "EOF" => rd + n = Len(hostBody)
          /\ rd' = rd + n
          /\ chunks' = IF n > 0 \/ err # "nil" THEN Append(chunks, n) ELSE chunks
          /\ diffBuilder' = LoopWrite(diffBuilder, SubSeq(hostBody, rd + 1, rd + n), err)
          /\ IF LoopBreak(err)
             THEN readEnd' = err /\ pc' = "analyze"
             ELSE UNCHANGED <<readEnd, pc>>
    /\ UNCHANGED <<alive, cfgAPIKey, served, r, req, resp, responses, trace,
                   cfgErr, hostStatus, hostBody, diagRead, getCalls, llmCalls,
                   llmPrompt, llmErr, choices, indexedEmpty>>

\* analyzeChanges and the rest of analyzePRHandler
AnalyzeChanges ==
    /\ alive
    /\ pc = "analyze"
    /\ \E loaded \in BOOLEAN, failed \in BOOLEAN,
          cs \in SeqsUpTo(Completions, MaxChoices) :
          IF ~loaded
          THEN /\ cfgErr' = "analyze"
               /\ Respond(HttpError(ErrAnalyzing(ErrLoadConfig),
                                    StatusInternalServerError), <<"dispatch">>)
               /\ UNCHANGED <<llmCalls, llmPrompt, llmErr, choices, indexedEmpty>>
          ELSE IF Dispatch(req.model_type) = "openai"
          THEN /\ llmCalls' = llmCalls + 1
               /\ llmPrompt' = Prompt(diffBuilder)
               /\ cfgErr' = cfgErr
               /\ IF failed
                  THEN /\ llmErr' = TRUE
                       /\ Respond(HttpError(ErrAnalyzing(ErrOpenAI),
                                            StatusInternalServerError),
                                  <<"dispatch", "LLM">>)
                       /\ UNCHANGED <<choices, indexedEmpty>>
                  ELSE /\ choices' = cs
                       /\ llmErr' = llmErr
                       /\ IF FirstChoice(cs).panic
                          THEN /\ indexedEmpty' = TRUE
                               /\ pc' = "panicked"
                               /\ trace' = trace \o <<"dispatch", "LLM">>
                               /\ UNCHANGED <<resp, responses>>
                          ELSE /\ indexedEmpty' = indexedEmpty
                               /\ Respond(JSONResponse(FirstChoice(cs).content,
                                                       req.model_type),
                                          <<"dispatch", "LLM">>)
          ELSE IF Dispatch(req.model_type) = "claude"
          THEN /\ Respond(HttpError(ErrAnalyzing(ErrClaude),
                                    StatusInternalServerError), <<"dispatch">>)
               /\ UNCHANGED <<cfgErr, llmCalls, llmPrompt, llmErr, choices,
                              indexedEmpty>>
          ELSE /\ Respond(HttpError(ErrAnalyzing(ErrUnsupported(req.model_type)),
                                    StatusInternalServerError), <<"dispatch">>)
               /\ UNCHANGED <<cfgErr, llmCalls, llmPrompt, llmErr, choices,
                              indexedEmpty>>
    /\ UNCHANGED <<alive, cfgAPIKey, served, r, req, hostStatus, hostBody, rd, chunks,
                   readEnd, diffBuilder, diagRead, getCalls>>

\* the request is over (answered, or its goroutine panicked and net/http
\* recovered by dropping the connection); the server takes the next one
Complete ==
    /\ alive
    /\ pc \in {"done", "panicked"}
    /\ pc' = "idle"
    /\ served' = served + 1
    /\ ResetRequest
    /\ UNCHANGED <<alive, cfgAPIKey>>

Next ==
    \/ Receive
    \/ ValidateAPIKey
    \/ AnalyzePRHandler
    \/ FetchStart
    \/ FetchDiag
    \/ FetchRead
    \/ AnalyzeChanges
    \/ Complete

Spec == Init /\ [][Next]_vars

TypeOK ==
    /\ alive \in BOOLEAN
    /\ pc \in {"idle", "auth", "handler", "fetch", "diag", "read", "analyze",
               "done", "panicked", "crashed"}
    /\ served \in 0..MaxRequests
    /\ responses \in 0..1
    /\ rd \in 0..Len(hostBody)

----------------------------------------------------------------------------
(* Properties *)

Ended == pc \in {"done", "panicked", "crashed"}
InFlight == pc # "idle"
PassedGate == cfgErr # "auth" /\ r.apiKey = cfgAPIKey
NoOutbound == getCalls = 0 /\ llmCalls = 0
Delivered == SubSeq(hostBody, 1, rd)
Has(t, e) == \E i \in 1..Len(t) : t[i] = e

C2_Claim ==
    /\ alive
    /\ diagRead = "fail" =>
          (pc = "done" /\ resp.status = StatusInternalServerError)

\* C3, as stated: with "openai", a call that errors or returns no choice
\* ends in a provider error and a 500, and the empty list is never indexed.
C3_Claim ==
    (Ended /\ llmCalls > 0 /\ (llmErr \/ Len(choices) = 0)) =>
        /\ ~indexedEmpty
        /\ pc = "done"
        /\ resp.status = StatusInternalServerError

\* C4, as stated: a hosting answer with a non-2xx status ends in a 500 whose
\* message includes that status, and every 2xx status is taken as success.
C4_Claim ==
    (InFlight /\ hostStatus # 0) =>
        IF hostStatus \in 200..299
        THEN pc # "diag" /\ diagRead = "none"
        ELSE Ended =>
                /\ pc = "done"
                /\ resp.status = StatusInternalServerError
                /\ Contains(resp.msg, Itoa(hostStatus))

IsClaude == r.body.first = "object" /\ r.body.value.model_type = "claude"

\* C5, as stated: a request with model_type "claude" is always answered
\* with an error whose message contains "not implemented", whatever the
\* hosting provider returns for the diff fetch (read here on the requests
\* the hosting provider answered with an error status and the handler
\* responded to).
C5_Original ==
    (pc = "done" /\ IsClaude /\ hostStatus >= 400) =>
        /\ resp.status >= 400
        /\ SaysNotImplemented(resp.msg)

\* C5, amended: a request with model_type "claude" is never answered with
\* success and never reaches the LLM; once its diff fetch has succeeded and
\* the dispatcher has loaded its configuration, the answer is a 500 whose
\* message contains "not implemented", whatever the diff is.  A request
\* stopped earlier gets that stage's error.
C5_Amended ==
    (InFlight /\ IsClaude) =>
        /\ llmCalls = 0
        /\ pc = "done" => resp.status >= 400
        /\ (pc = "done" /\ Has(trace, "dispatch") /\ cfgErr = "none") =>
              /\ resp.status = StatusInternalServerError
              /\ SaysNotImplemented(resp.msg)
        /\ (pc = "done" /\ SaysNotImplemented(resp.msg)) =>
              (Has(trace, "dispatch") /\ hostStatus = StatusOK)

C5_Witness ==
    /\ pc = "done"
    /\ IsClaude
    /\ Len(diffBuilder) > 0
    /\ resp.status = StatusInternalServerError
    /\ SaysNotImplemented(resp.msg)

\* C6: an authenticated POST with model_type "openai", a hosting answer of
\* success with diff text T and a first completion A is answered 200 with
\* analysis = A and model_used = "openai", and the LLM was sent the fixed
\* prefix followed by T unchanged.
C6_Theorem ==
    (Ended /\ req.model_type = "openai" /\ hostStatus = StatusOK
       /\ readEnd # "none" /\ llmCalls > 0 /\ ~llmErr /\ Len(choices) > 0) =>
        /\ pc = "done"
        /\ responses = 1
        /\ resp.status = StatusOK
        /\ resp.ctype = "application/json"
        /\ resp.json.analysis = choices[1]
        /\ resp.json.model_used = "openai"
        /\ llmCalls = 1
        /\ llmPrompt = <<PromptPrefix>> \o Delivered
        /\ readEnd = "EOF" => llmPrompt = <<PromptPrefix>> \o hostBody

C6_Witness ==
    /\ pc = "done"
    /\ resp.status = StatusOK
    /\ readEnd = "EOF"
    /\ Len(hostBody) = MaxBody
    /\ hostBody[1] # hostBody[2]
    /\ Len(choices) = 2
    /\ choices[1] # choices[2]
    /\ resp.json.analysis = choices[1]

\* C7: on status 200 the text fetchPRChanges builds is, at every turn of
\* the read loop, exactly the bytes the transport has handed over so far,
\* and once the stream ended with io.EOF it is the whole body, however the
\* body was split into reads and also when the last read carries data
\* together with io.EOF.
C7_Theorem ==
    (pc \in {"read", "analyze", "done", "panicked"} /\ hostStatus = StatusOK) =>
        /\ diffBuilder = Delivered
        /\ readEnd = "EOF" => diffBuilder = hostBody

C7_Witness ==
    /\ pc = "analyze"
    /\ readEnd = "EOF"
    /\ Len(hostBody) = MaxBody
    /\ hostBody[1] # hostBody[2]
    /\ Len(chunks) >= 2
    /\ chunks[Len(chunks)] > 0
    /\ diffBuilder = hostBody

\* C8, as stated: a request whose method is not POST is answered 405
\* (read here on the requests for which the configuration loaded).
C8_Original ==
    (Ended /\ r.method # "POST" /\ cfgErr = "none") =>
        (pc = "done" /\ resp.status = StatusMethodNotAllowed)

\* C8, amended: a request that passed the API-key gate and whose method is
\* not POST is answered 405, with no outbound call; one that did not pass
\* the gate gets the gate's 401 or 500 whatever its method.
C8_Amended ==
    /\ (Ended /\ r.method # "POST" /\ PassedGate) =>
          /\ pc = "done"
          /\ responses = 1
          /\ resp.status = StatusMethodNotAllowed
          /\ NoOutbound
    /\ (Ended /\ r.method # "POST" /\ ~PassedGate) =>
          resp.status \in {StatusUnauthorized, StatusInternalServerError}

C8_Witness ==
    /\ pc = "done"
    /\ r.method = "DELETE"
    /\ PassedGate
    /\ resp.status = StatusMethodNotAllowed

\* C9, as stated: a request whose body is malformed JSON is answered 400
\* (read here on the requests for which the configuration loaded).
C9_Original ==
    (Ended /\ Malformed(r.body) /\ cfgErr = "none") =>
        (pc = "done" /\ resp.status = StatusBadRequest)

\* C9, amended: a POST that passed the API-key gate and whose body does not
\* begin with a well-formed JSON value (it is empty, or its first value has
\* a syntax error) is answered 400, with no outbound call.
C9_Amended ==
    (Ended /\ PassedGate /\ r.method = "POST"
       /\ r.body.first \in {"syntax", "empty"}) =>
        /\ pc = "done"
        /\ responses = 1
        /\ resp.status = StatusBadRequest
        /\ NoOutbound

C9_Witness ==
    /\ pc = "done"
    /\ PassedGate
    /\ r.method = "POST"
    /\ r.body.first = "syntax"
    /\ resp.status = StatusBadRequest

StageOrder ==
    <<"auth", "method", "decode", "fetch", "GET", "dispatch", "LLM", "respond">>
StageIndex(e) == CHOOSE i \in 1..Len(StageOrder) : StageOrder[i] = e

\* C10, as stated: the stages run in the order key check, method check,
\* decode, fetch, dispatch, response; each outbound call is made at most
\* once; the first failing stage ends the request with exactly one error
\* response; the LLM is called only after a successful fetch and only for
\* "openai"; the hosting GET comes before the tag is examined.
C10_Claim ==
    /\ \A i, j \in 1..Len(trace) :
          i < j => StageIndex(trace[i]) < StageIndex(trace[j])
    /\ getCalls <= 1 /\ llmCalls <= 1
    /\ Ended =>
          /\ responses = 1
          /\ trace[Len(trace)] = "respond"
          /\ resp.status # StatusOK => llmCalls = 0 \/ llmErr
    /\ llmCalls > 0 =>
          /\ hostStatus = StatusOK /\ readEnd # "none"
          /\ req.model_type = "openai"
    /\ Has(trace, "dispatch") => Has(trace, "GET")

\* the parts of C10 that do not depend on how a failed stage ends
C10_Order ==
    /\ \A i, j \in 1..Len(trace) :
          i < j => StageIndex(trace[i]) < StageIndex(trace[j])
    /\ getCalls <= 1 /\ llmCalls <= 1
    /\ responses <= 1
    /\ pc = "done" => (responses = 1 /\ trace[Len(trace)] = "respond")
    /\ llmCalls > 0 =>
          /\ hostStatus = StatusOK /\ readEnd # "none"
          /\ req.model_type = "openai"
    /\ Has(trace, "dispatch") => Has(trace, "GET")

====
